---- MODULE Spec2Model ----
(***************************************************************************)
(* Model of the E57 -> IFC converter back end:                             *)
(*   backend/app/processing.py     detect_slabs, detect_walls,             *)
(*                                 detect_columns, PointCloudProcessor,    *)
(*                                 process_point_cloud                     *)
(*   backend/app/ifc_generator.py  IFCGenerator                            *)
(*   backend/app/api.py            update_model (PUT /model/{task_id})     *)
(*                                                                         *)
(* Numbers.  Lengths are integers in centimetres (0.05 m = 5, 0.1 m = 10,  *)
(* 0.3 m = 30, 2.0 m = 200).  A value the code computes by a division (a   *)
(* bin midpoint, a mean of midpoints) is kept exact as an integer          *)
(* numerator with an explicit denominator "scale": the real value is       *)
(* numerator / scale centimetres.  Comparisons are cross-multiplied.  The  *)
(* float factors 0.3, 0.2, 0.6, 0.5 are the fractions 3/10, 1/5, 3/5, 1/2. *)
(* IEEE rounding of the doubles is not modelled.  A coordinate that is not  *)
(* a number (float nan) is the value NaN, which no finite coordinate of a  *)
(* sample takes; every operator that reads a coordinate tests for it       *)
(* before any arithmetic and then does what numpy does with a nan.         *)
(***************************************************************************)
EXTENDS Integers, Sequences, FiniteSets, TLC

VARIABLES
    cloud,      \* the point sample: a sequence of <<x, y, z>>
    wall_grid,  \* the grid_size a direct caller of detect_walls passes
    ret,        \* the last direct call of a detector: what it was given and returned
    results,    \* what a caller that runs the detectors itself keeps of each one
    stage,      \* process_point_cloud: the last step completed
    status,     \* "status" of the record process_point_cloud returned
    elements,   \* what segment_building_elements returned
    model_file, \* models/<task_id>.json
    ifc,        \* exports/<task_id>.ifc
    saved,      \* the model_data save_model_data wrote, call after call
    runs,       \* calls of process_point_cloud so far
    edits       \* PUT /model/<task_id> requests so far

vars == <<cloud, wall_grid, ret, results, stage, status, elements, model_file, ifc, saved, runs, edits>>

detectVars == <<cloud, wall_grid, ret, results>>

taskVars == <<stage, status, elements, model_file, ifc, saved, runs, edits>>

(***************************************************************************)
(* Bounds of the input samples.                                            *)
(***************************************************************************)
MaxPts == 7          \* points per elevation of a two-level sample: 0..MaxPts
MaxNx == 19          \* lattice samples: 1..MaxNx by 1..MaxNy nodes
MaxNy == 5
MaxExtra == 1        \* extra points stacked on one lattice node: 0..MaxExtra
MaxRunPts == 9       \* points of the samples process_point_cloud is run on
MaxRuns == 2         \* calls of process_point_cloud on one task
MaxEdits == 2        \* PUT /model requests on one task
MaxStoreys == 2      \* entries of a "storeys" list a client stores: 1..MaxStoreys
MaxStoreyTag == 2    \* 'storey' index a client puts on an element: 0..MaxStoreyTag

(***************************************************************************)
(* Program constants, in centimetres.                                      *)
(***************************************************************************)
DefaultZStep == 5            \* z_step = 0.05
SlabMergeGap == 30           \* "< 0.3": peaks closer than this are one slab
SlabThickness == 30          \* 'thickness': 0.3
DefaultWallGrid == 10        \* detect_walls grid_size = 0.1
MinWallCells == 5            \* len(wall_segments) > 5
WallThickness == 20          \* 'thickness': 0.2
DefaultColumnGrid == 50      \* detect_columns grid_size = 0.5
MinColumnHeight == 200       \* height_range < 2.0
MaxGridBins == 200           \* min(x_bins, 200)
ColumnSize == 40             \* 'width': 0.4, 'depth': 0.4
ColumnCapTrigger == 50       \* len(columns) > 50
ColumnCap == 20              \* columns[:20]

(***************************************************************************)
(* Helpers.                                                                *)
(***************************************************************************)
SeqRange(s) == {s[k] : k \in DOMAIN s}

MinOf(S) == CHOOSE m \in S : \A n \in S : m <= n

MaxOf(S) == CHOOSE m \in S : \A n \in S : m >= n

RECURSIVE SumSeq(_)
SumSeq(s) == IF s = <<>> THEN 0 ELSE Head(s) + SumSeq(Tail(s))

\* range(n): the sequence 0, 1, ..., n-1
PyRange(n) == [k \in 1..n |-> k - 1]

\* float('nan') as a coordinate of a point
NaN == -1000000

IsNaN(v) == v = NaN

\* some point of pts has a nan on the axis a (1 = x, 2 = y, 3 = z)
HasNaN(pts, a) == \E k \in DOMAIN pts : IsNaN(pts[k][a])

\* What a call returns: a value, or the exception it raised.
Returned(v) == [exc |-> "none", val |-> v]

Raised(e) == [exc |-> e, val |-> <<>>]

(***************************************************************************)
(* numpy.histogram / histogram2d over [lo, hi] with n equal bins: a value  *)
(* falls in bin floor((v - lo) * n / (hi - lo)), the right edge hi falls   *)
(* in the last bin.  A zero range is widened to [lo - 0.5, hi + 0.5].      *)
(***************************************************************************)
EdgeLo(lo, hi) == IF lo = hi THEN lo - 50 ELSE lo

EdgeSpan(lo, hi) == IF lo = hi THEN 100 ELSE hi - lo

BinIndex(v, lo, hi, n) ==
    LET i == ((v - EdgeLo(lo, hi)) * n) \div EdgeSpan(lo, hi)
    IN  IF i >= n THEN n - 1 ELSE i

(***************************************************************************)
(* detect_slabs                                                            *)
(***************************************************************************)
\* Variant: the elevation is the midpoint of the group's first bin, not the
\* mean over the group.
SlabOf_FirstMember(cur, zmin, span, nbins) ==
    [type |-> "IfcSlab",
     z |-> zmin * 2 * nbins + (2 * cur[1] + 1) * span,
     scale |-> 2 * nbins,
     thickness |-> SlabThickness]

\* The slab closed from a group of candidate bins (indices cur) of a histogram
\* of nbins bins over [zmin, zmin + span]: z is the mean of the bin midpoints
\* zmin + (2i + 1) * span / (2 * nbins).
SlabOf(cur, zmin, span, nbins) ==
    LET k == Len(cur)
        d == 2 * nbins * k
    IN  [type |-> "IfcSlab",
         z |-> zmin * d + (2 * SumSeq(cur) + k) * span,
         scale |-> d,
         thickness |-> SlabThickness]

\* Variant: a gap of exactly 0.3 still merges (<= for <).
SlabGapBelow_Inclusive(i, prev, span, nbins) == (i - prev) * span <= SlabMergeGap * nbins

\* candidate['z'] - current_slab[-1]['z'] < 0.3, for the bins i and prev
SlabGapBelow(i, prev, span, nbins) == (i - prev) * span < SlabMergeGap * nbins

RECURSIVE GroupSlabs(_, _, _, _, _, _)
GroupSlabs(cands, cur, slabs, zmin, span, nbins) ==
    IF cands = <<>>
    THEN IF Len(cur) > 0 THEN Append(slabs, SlabOf(cur, zmin, span, nbins)) ELSE slabs
    ELSE LET c == Head(cands)
         IN  IF SlabGapBelow(c, cur[Len(cur)], span, nbins)
             THEN GroupSlabs(Tail(cands), Append(cur, c), slabs, zmin, span, nbins)
             ELSE GroupSlabs(Tail(cands), <<c>>,
                             Append(slabs, SlabOf(cur, zmin, span, nbins)),
                             zmin, span, nbins)

\* hist[i] > np.max(hist) * 0.3
SlabPeak(count, maxCount) == count * 10 > maxCount * 3

detect_slabs(points, z_step) ==
    IF Len(points) = 0
    THEN Raised("ValueError")          \* z_coords.min() of an empty array
    ELSE IF HasNaN(points, 3)
    THEN Raised("ValueError")          \* z_min is nan: int(nan) cannot be converted
    ELSE
    LET zs == [k \in DOMAIN points |-> points[k][3]]
        zmin == MinOf(SeqRange(zs))
        zmax == MaxOf(SeqRange(zs))
        nbins == (zmax - zmin) \div z_step
    IN  IF nbins < 1
        THEN Raised("ValueError")      \* np.histogram: `bins` must be positive
        ELSE
        LET span == zmax - zmin
            bin == [k \in DOMAIN zs |-> BinIndex(zs[k], zmin, zmax, nbins)]
            hist == [i \in 0..(nbins - 1) |-> Cardinality({k \in DOMAIN zs : bin[k] = i})]
            maxCount == MaxOf({hist[i] : i \in 0..(nbins - 1)})
            cands == SelectSeq(PyRange(nbins), LAMBDA i : SlabPeak(hist[i], maxCount))
        IN  IF Len(cands) > 0
            THEN Returned(GroupSlabs(Tail(cands), <<Head(cands)>>, <<>>, zmin, span, nbins))
            ELSE Returned(<<>>)

(***************************************************************************)
(* The 2D occupancy grid both detect_walls and detect_columns build with   *)
(* np.histogram2d(xs, ys, bins=[x_bins, y_bins]).  Cells are <<i, j>>,     *)
(* 0-based.  Cell centres (x_edges[i] + x_edges[i+1]) / 2 are kept over    *)
(* the common denominator 2 * x_bins * y_bins.                             *)
(***************************************************************************)
Grid2D(pts, x_bins, y_bins) ==
    LET xs == {pts[k][1] : k \in DOMAIN pts}
        ys == {pts[k][2] : k \in DOMAIN pts}
        x_min == MinOf(xs)
        x_max == MaxOf(xs)
        y_min == MinOf(ys)
        y_max == MaxOf(ys)
        cell == [k \in DOMAIN pts |->
                    <<BinIndex(pts[k][1], x_min, x_max, x_bins),
                      BinIndex(pts[k][2], y_min, y_max, y_bins)>>]
        hist == [c \in SeqRange(cell) |-> Cardinality({k \in DOMAIN pts : cell[k] = c})]
    IN  [x_bins |-> x_bins, y_bins |-> y_bins,
         x_lo |-> EdgeLo(x_min, x_max), x_span |-> EdgeSpan(x_min, x_max),
         y_lo |-> EdgeLo(y_min, y_max), y_span |-> EdgeSpan(y_min, y_max),
         hist |-> hist,
         max |-> MaxOf({hist[c] : c \in DOMAIN hist})]

\* hist_2d[i, j]; the cells no point falls in count 0
CellCount(g, i, j) == IF <<i, j>> \in DOMAIN g.hist THEN g.hist[<<i, j>>] ELSE 0

\* np.max(hist_2d)
MaxCount(g) == g.max

GridScale(g) == 2 * g.x_bins * g.y_bins

\* (x_edges[i] + x_edges[i+1]) / 2 and (y_edges[j] + y_edges[j+1]) / 2, times GridScale
XCenter(g, i) == g.x_lo * GridScale(g) + (2 * i + 1) * g.x_span * g.y_bins

YCenter(g, j) == g.y_lo * GridScale(g) + (2 * j + 1) * g.y_span * g.x_bins

RECURSIVE ConcatAll(_)
ConcatAll(ss) == IF ss = <<>> THEN <<>> ELSE Head(ss) \o ConcatAll(Tail(ss))

(***************************************************************************)
(* detect_walls                                                            *)
(***************************************************************************)
\* z_coords > z_min + z_range * 0.5
AboveHalf(z, zmin, zmax) == 2 * (z - zmin) > zmax - zmin

\* wall_mask = hist_2d > np.max(hist_2d) * 0.2
WallMask(g, i, j) == CellCount(g, i, j) * 5 > MaxCount(g)

\* Variants: any two occupied cells make a wall; five cells are enough (>= for >).
EnoughSegments_TwoCells(n) == n > 1

EnoughSegments_FiveCells(n) == n >= MinWallCells

\* len(wall_segments) > 5
EnoughSegments(n) == n > MinWallCells

WallOf(g, first, last, zmin, height) ==
    [type |-> "IfcWall",
     start |-> <<XCenter(g, first[1]), YCenter(g, first[2]), zmin * GridScale(g)>>,
     end |-> <<XCenter(g, last[1]), YCenter(g, last[2]), zmin * GridScale(g)>>,
     scale |-> GridScale(g),
     height |-> height,
     thickness |-> WallThickness]

\* One grid line: the occupied cells in scan order; one wall between the first
\* and the last of them when there are enough.
LineWall(g, cells, zmin, height) ==
    LET segs == SelectSeq(cells, LAMBDA c : WallMask(g, c[1], c[2]))
    IN  IF EnoughSegments(Len(segs))
        THEN <<WallOf(g, segs[1], segs[Len(segs)], zmin, height)>>
        ELSE <<>>

\* for j in range(y_bins): for i in range(x_bins)
RowCells(g, j) == [k \in 1..g.x_bins |-> <<k - 1, j>>]

\* for i in range(x_bins): for j in range(y_bins)
ColCells(g, i) == [k \in 1..g.y_bins |-> <<i, k - 1>>]

WallGrid(wall_points, grid_size) ==
    LET xs == {wall_points[k][1] : k \in DOMAIN wall_points}
        ys == {wall_points[k][2] : k \in DOMAIN wall_points}
    IN  Grid2D(wall_points,
               (MaxOf(xs) - MinOf(xs)) \div grid_size + 1,
               (MaxOf(ys) - MinOf(ys)) \div grid_size + 1)

WallPoints(points) ==
    LET zs == {points[k][3] : k \in DOMAIN points}
    IN  SelectSeq(points, LAMBDA p : AboveHalf(p[3], MinOf(zs), MaxOf(zs)))

\* Variant: the height is the Z range of wall_points, the restricted set.
WallHeight_Restricted(points, wall_points) ==
    LET zs == {wall_points[k][3] : k \in DOMAIN wall_points}
    IN  MaxOf(zs) - MinOf(zs)

\* wall_height = z_max - z_min, with z_min, z_max those of all z_coords
WallHeight(points, wall_points) ==
    LET zs == {points[k][3] : k \in DOMAIN points}
    IN  MaxOf(zs) - MinOf(zs)

detect_walls(points, grid_size) ==
    IF Len(points) = 0
    THEN Raised("ValueError")          \* z_coords.min() of an empty array
    ELSE IF HasNaN(points, 3)
    THEN Returned(<<>>)                \* z_threshold is nan: no z_coords > nan
    ELSE
    LET zs == {points[k][3] : k \in DOMAIN points}
        zmin == MinOf(zs)
        wall_points == WallPoints(points)
        wall_height == WallHeight(points, wall_points)
    IN  IF Len(wall_points) = 0
        THEN Returned(<<>>)
        ELSE IF HasNaN(wall_points, 1) \/ HasNaN(wall_points, 2)
        THEN Raised("ValueError")      \* x_min or y_min is nan: int(nan)
        ELSE
        LET g == WallGrid(wall_points, grid_size)
        IN  Returned(
              ConcatAll([k \in 1..g.y_bins |-> LineWall(g, RowCells(g, k - 1), zmin, wall_height)])
              \o
              ConcatAll([k \in 1..g.x_bins |-> LineWall(g, ColCells(g, k - 1), zmin, wall_height)]))

(***************************************************************************)
(* detect_columns                                                          *)
(***************************************************************************)
\* Variant: a height of exactly 2.0 is rejected too (<= for <).
TooLow_Inclusive(height_range) == ~IsNaN(height_range) /\ height_range <= MinColumnHeight

\* height_range < 2.0; nan < 2.0 is False
TooLow(height_range) == ~IsNaN(height_range) /\ height_range < MinColumnHeight

\* hist_2d[i, j] > np.max(hist_2d) * 0.6
ColumnPeak(g, i, j) == CellCount(g, i, j) * 5 > MaxCount(g) * 3

\* hist_2d[i, j] == np.max(hist_2d[i-1:i+2, j-1:j+2])
LocalMax(g, i, j) ==
    \A di \in {-1, 0, 1}, dj \in {-1, 0, 1} :
        CellCount(g, i + di, j + dj) <= CellCount(g, i, j)

ColumnOf(g, i, j, zmin, height) ==
    [type |-> "IfcColumn",
     position |-> <<XCenter(g, i), YCenter(g, j),
                    IF IsNaN(zmin) THEN NaN ELSE zmin * GridScale(g)>>,
     scale |-> GridScale(g),
     height |-> height,
     width |-> ColumnSize,
     depth |-> ColumnSize]

\* for i in range(1, x_bins - 1): for j in range(1, y_bins - 1)
InteriorCells(g) ==
    ConcatAll([a \in 1..(g.x_bins - 2) |-> [b \in 1..(g.y_bins - 2) |-> <<a, b>>]])

ColumnGrid(points, grid_size) ==
    LET xs == {points[k][1] : k \in DOMAIN points}
        ys == {points[k][2] : k \in DOMAIN points}
        xb == (MaxOf(xs) - MinOf(xs)) \div grid_size + 1
        yb == (MaxOf(ys) - MinOf(ys)) \div grid_size + 1
    IN  Grid2D(points,
               IF xb < MaxGridBins THEN xb ELSE MaxGridBins,
               IF yb < MaxGridBins THEN yb ELSE MaxGridBins)

\* The raw local-maximum candidates, in scan order.
ColumnCandidates(points, grid_size) ==
    LET g == ColumnGrid(points, grid_size)
    IN  SelectSeq(InteriorCells(g),
                  LAMBDA c : ColumnPeak(g, c[1], c[2]) /\ LocalMax(g, c[1], c[2]))

\* Variant: the list is cut as soon as it is longer than the cap of 20.
CapColumns_AtCap(columns) ==
    IF Len(columns) > ColumnCap THEN SubSeq(columns, 1, ColumnCap) ELSE columns

\* if len(columns) > 50: columns = columns[:20]
CapColumns(columns) ==
    IF Len(columns) > ColumnCapTrigger THEN SubSeq(columns, 1, ColumnCap) ELSE columns

detect_columns(points, grid_size) ==
    IF Len(points) = 0
    THEN Raised("ValueError")          \* z_coords.min() of an empty array
    ELSE
    LET zs == {points[k][3] : k \in DOMAIN points}
        zmin == IF NaN \in zs THEN NaN ELSE MinOf(zs)
        height_range == IF NaN \in zs THEN NaN ELSE MaxOf(zs) - zmin
    IN  IF TooLow(height_range)
        THEN Returned(<<>>)
        ELSE IF HasNaN(points, 1) \/ HasNaN(points, 2)
        THEN Raised("ValueError")      \* x_min or y_min is nan: int(nan)
        ELSE
        LET g == ColumnGrid(points, grid_size)
            cands == ColumnCandidates(points, grid_size)
        IN  Returned(CapColumns(
                [k \in DOMAIN cands |-> ColumnOf(g, cands[k][1], cands[k][2], zmin, height_range)]))

(***************************************************************************)
(* The sample after a detector ran on it.  Each detector takes             *)
(* np.asarray(point_cloud.points) and only reads it: z_coords and          *)
(* xy_points are slices it never assigns to, and wall_points, the          *)
(* boolean-mask selection points[z_coords > z_threshold], is a new array.  *)
(* The detectors have no globals and no attributes, so a call is one step  *)
(* whatever runs beside it.                                                *)
(***************************************************************************)
\* Variant: detect_walls keeps its restriction in the cloud it was given.
PointsAfter_WallsInPlace(fn, points) ==
    IF fn = "detect_walls" /\ Len(points) > 0 /\ ~HasNaN(points, 3)
    THEN WallPoints(points)
    ELSE points

PointsAfter(fn, points) == points

(***************************************************************************)
(* PointCloudProcessor.segment_building_elements and save_model_data       *)
(***************************************************************************)
\* The three detectors in turn, each with its default parameter; the first
\* exception leaves the method.
segment_building_elements(points) ==
    LET slabs == detect_slabs(points, DefaultZStep)
        walls == detect_walls(points, DefaultWallGrid)
        columns == detect_columns(points, DefaultColumnGrid)
    IN  IF slabs.exc # "none" THEN Raised(slabs.exc)
        ELSE IF walls.exc # "none" THEN Raised(walls.exc)
        ELSE IF columns.exc # "none" THEN Raised(columns.exc)
        ELSE Returned([slabs |-> slabs.val, walls |-> walls.val, columns |-> columns.val])

\* get_min_bound() / get_max_bound() of a non-empty cloud
MinBound(points) == [a \in 1..3 |-> MinOf({points[k][a] : k \in DOMAIN points})]

MaxBound(points) == [a \in 1..3 |-> MaxOf({points[k][a] : k \in DOMAIN points})]

\* model_data of save_model_data (task_id and ply_path are fixed strings)
ModelData(points, elems) ==
    [point_count |-> Len(points),
     elements |-> elems,
     bounds |-> [min |-> MinBound(points), max |-> MaxBound(points)]]

\* A file and its JSON content.
NoFile == [exists |-> FALSE, data |-> <<>>]

\* Variant: the element lists are added to those the file already holds.
WriteJson_Append(old, model_data) ==
    IF old.exists
    THEN [exists |-> TRUE,
          data |-> [model_data EXCEPT
                     !.elements = [slabs |-> old.data.elements.slabs \o @.slabs,
                                   walls |-> old.data.elements.walls \o @.walls,
                                   columns |-> old.data.elements.columns \o @.columns]]]
    ELSE [exists |-> TRUE, data |-> model_data]

\* with open(output_path, 'w') as f: json.dump(model_data, f): the file after
\* the write, whatever it held before
WriteJson(old, model_data) == [exists |-> TRUE, data |-> model_data]

(***************************************************************************)
(* api.update_model: model_data.update(updates) on the stored JSON         *)
(***************************************************************************)
DictUpdate(d, u) ==
    [k \in DOMAIN d \cup DOMAIN u |-> IF k \in DOMAIN u THEN u[k] ELSE d[k]]

\* dict.get(key, default)
Get(d, key, default) == IF key \in DOMAIN d THEN d[key] ELSE default

\* The planar start-to-end length sqrt(dx**2 + dy**2) of a wall is at least len
\* centimetres.  An axis-parallel wall is compared without squaring.
Abs(n) == IF n < 0 THEN -n ELSE n

WallAtLeast(w, len) ==
    LET dx == Abs(w.end[1] - w.start[1])
        dy == Abs(w.end[2] - w.start[2])
        t == len * w.scale
    IN  IF dy = 0 THEN dx >= t
        ELSE IF dx = 0 THEN dy >= t
        ELSE dx >= t \/ dy >= t \/ dx * dx + dy * dy >= t * t

MinWallLength == 10          \* length < 0.1

(***************************************************************************)
(* IFCGenerator.  The IFC file is the sequence of the element entities     *)
(* created in it, with the storeys of create_ifc_structure.  An attribute  *)
(* never assigned is the empty sequence, an assigned one a sequence of     *)
(* one value.                                                              *)
(***************************************************************************)
\* self.storeys after create_ifc_structure(storeys_count): its keys
StoreyKeys(storeys_count) ==
    IF storeys_count > 1 THEN 0..(storeys_count - 1) ELSE {0}

\* root.create_entity: the entity as created, nothing assigned yet
NewEntity(class) == [class |-> class, shape |-> <<>>, placement |-> <<>>, container |-> <<>>]

\* storeys.get(storey_idx, storeys[0]) with storey_idx = data.get('storey', 0)
TargetStorey(data, storeys) ==
    LET storey_idx == Get(data, "storey", 0)
    IN  IF storey_idx \in storeys THEN storey_idx ELSE 0

\* relating_structure = self.storeys[0]
SlabStorey(slab_data, storeys) == 0

\* create_slab: the file's entities after the call
create_slab(entities, storeys, slab_data, bounds) ==
    Append(entities,
        [class |-> "IfcSlab",
         shape |-> <<[XDim |-> bounds.max[1] - bounds.min[1],
                      YDim |-> bounds.max[2] - bounds.min[2],
                      Depth |-> slab_data.thickness]>>,
         placement |-> <<[location |-> <<(bounds.max[1] + bounds.min[1]) * slab_data.scale,
                                         (bounds.max[2] + bounds.min[2]) * slab_data.scale,
                                         2 * slab_data.z>>,
                          scale |-> 2 * slab_data.scale]>>,
         container |-> <<SlabStorey(slab_data, storeys)>>])

\* length < 0.1
TooShort(wall_data) == ~WallAtLeast(wall_data, MinWallLength)

\* create_wall: the entity is created first; a wall shorter than 0.1 returns
\* before anything is assigned to it.  XDim, the length, is kept as the vector
\* (dx, dy) it is the magnitude of.
create_wall(entities, storeys, wall_data) ==
    IF TooShort(wall_data)
    THEN Append(entities, NewEntity("IfcWall"))
    ELSE Append(entities,
        [class |-> "IfcWall",
         shape |-> <<[dx |-> wall_data.end[1] - wall_data.start[1],
                      dy |-> wall_data.end[2] - wall_data.start[2],
                      scale |-> wall_data.scale,
                      YDim |-> wall_data.thickness,
                      Depth |-> wall_data.height]>>,
         placement |-> <<[location |-> wall_data.start, scale |-> wall_data.scale]>>,
         container |-> <<TargetStorey(wall_data, storeys)>>])

create_column(entities, storeys, column_data) ==
    Append(entities,
        [class |-> "IfcColumn",
         shape |-> <<[XDim |-> column_data.width,
                      YDim |-> column_data.depth,
                      Depth |-> column_data.height]>>,
         placement |-> <<[location |-> column_data.position, scale |-> column_data.scale]>>,
         container |-> <<TargetStorey(column_data, storeys)>>])

RECURSIVE CreateSlabs(_, _, _, _)
CreateSlabs(entities, storeys, slabs, bounds) ==
    IF slabs = <<>> THEN entities
    ELSE CreateSlabs(create_slab(entities, storeys, Head(slabs), bounds),
                     storeys, Tail(slabs), bounds)

RECURSIVE CreateWalls(_, _, _)
CreateWalls(entities, storeys, walls) ==
    IF walls = <<>> THEN entities
    ELSE CreateWalls(create_wall(entities, storeys, Head(walls)), storeys, Tail(walls))

RECURSIVE CreateColumns(_, _, _)
CreateColumns(entities, storeys, columns) ==
    IF columns = <<>> THEN entities
    ELSE CreateColumns(create_column(entities, storeys, Head(columns)), storeys, Tail(columns))

\* generate(): the file written to exports/<task_id>.ifc, with the model_data
\* load_model_data() read for it
generate(model_data) ==
    LET n == Len(Get(model_data, "storeys", <<>>))
        storeys == StoreyKeys(IF n = 0 THEN 1 ELSE n)
        elems == model_data.elements
    IN  [source |-> model_data,
         storeys |-> storeys,
         entities |->
            CreateColumns(
                CreateWalls(
                    CreateSlabs(<<>>, storeys, elems.slabs, model_data.bounds),
                    storeys, elems.walls),
                storeys, elems.columns)]

(***************************************************************************)
(* The samples the specifications draw from.                               *)
(***************************************************************************)
BaseZ == 100

\* n1 points at elevation BaseZ and n2 points at BaseZ + gap, laid out along
\* the X axis (axis = 1) or the Y axis (axis = 2) every `step` centimetres.
LevelPoint(k, z, axis, step) ==
    IF axis = 1 THEN <<k * step, 0, z>> ELSE <<0, k * step, z>>

Levels(n1, n2, gap, axis, step) ==
    [k \in 1..n1 |-> LevelPoint(k - 1, BaseZ, axis, step)]
        \o [k \in 1..n2 |-> LevelPoint(k - 1, BaseZ + gap, axis, step)]

Gaps == {0, 3, 31, 35, 36, 199, 200}

Steps == {2, 10}

\* An nx by ny lattice of points every 50 cm, at elevations alternating between
\* BaseZ and BaseZ + height, with `extra` more points on the lattice node (1, 1).
Lattice(nx, ny, height, extra) ==
    [k \in 1..(nx * ny) |->
        LET i == (k - 1) \div ny
            j == (k - 1) % ny
        IN  <<50 * i, 50 * j, IF (i + j) % 2 = 0 THEN BaseZ ELSE BaseZ + height>>]
    \o [k \in 1..extra |-> <<50, 50, BaseZ>>]

LatticeHeights == {199, 200}

\* Points stacked over the origin at the elevations BaseZ + d, d in `offsets`,
\* `low` of them at the lowest elevation and one at each other.
Stack(offsets, low) ==
    LET RECURSIVE Up(_)
        Up(S) == IF S = {} THEN <<>>
                 ELSE LET d == MinOf(S) IN <<<<0, 0, BaseZ + d>>>> \o Up(S \ {d})
    IN  [k \in 1..(low - 1) |-> <<0, 0, BaseZ + MinOf(offsets)>>] \o Up(offsets)

StackOffsets == {0, 10, 25, 40, 70, 100, 130}

StackSamples ==
    {Stack(S, low) : S \in (SUBSET StackOffsets) \ {{}}, low \in {1, 4}}

LevelSamples ==
    {Levels(n1, n2, gap, axis, step) :
        n1 \in 0..MaxPts, n2 \in 0..MaxPts, gap \in Gaps, axis \in {1, 2}, step \in Steps}

LatticeSamples ==
    {Lattice(nx, ny, h, extra) :
        nx \in 1..MaxNx, ny \in 1..MaxNy, h \in LatticeHeights, extra \in 0..MaxExtra}

Samples == LevelSamples \cup LatticeSamples \cup StackSamples

\* A finer grid_size than the default, 0.02, tried on the level samples
FineWallGrid == 2

Inputs ==
    {[cloud |-> c, wall_grid |-> DefaultWallGrid] : c \in Samples}
    \cup {[cloud |-> c, wall_grid |-> FineWallGrid] : c \in LevelSamples}

NoCall == [fn |-> "none", arg |-> 0, out |-> Returned(<<>>)]

\* no detector has been run: a result is kept as a sequence of one value
NoResults == [slabs |-> <<>>, walls |-> <<>>, columns |-> <<>>]

NoElements == [slabs |-> <<>>, walls |-> <<>>, columns |-> <<>>]

NoIfc == [exists |-> FALSE, source |-> <<>>, storeys |-> {}, entities |-> <<>>]

TaskInit ==
    /\ stage = "idle"
    /\ status = "none"
    /\ elements = NoElements
    /\ model_file = NoFile
    /\ ifc = NoIfc
    /\ saved = <<>>
    /\ runs = 0
    /\ edits = 0

(***************************************************************************)
(* SpecDetect: the detectors called directly on a sample.                  *)
(***************************************************************************)
InitDetect ==
    /\ \E in \in Inputs :
        /\ cloud = in.cloud
        /\ wall_grid = in.wall_grid
    /\ ret = NoCall
    /\ results = NoResults
    /\ TaskInit

DetectSlabs ==
    /\ ret' = [fn |-> "detect_slabs", arg |-> DefaultZStep,
               out |-> detect_slabs(cloud, DefaultZStep)]
    /\ cloud' = PointsAfter("detect_slabs", cloud)
    /\ UNCHANGED wall_grid
    /\ UNCHANGED taskVars

CallDetectSlabs ==
    /\ DetectSlabs
    /\ UNCHANGED results

DetectWalls ==
    /\ ret' = [fn |-> "detect_walls", arg |-> wall_grid,
               out |-> detect_walls(cloud, wall_grid)]
    /\ cloud' = PointsAfter("detect_walls", cloud)
    /\ UNCHANGED wall_grid
    /\ UNCHANGED taskVars

CallDetectWalls ==
    /\ DetectWalls
    /\ UNCHANGED results

DetectColumns ==
    /\ ret' = [fn |-> "detect_columns", arg |-> DefaultColumnGrid,
               out |-> detect_columns(cloud, DefaultColumnGrid)]
    /\ cloud' = PointsAfter("detect_columns", cloud)
    /\ UNCHANGED wall_grid
    /\ UNCHANGED taskVars

CallDetectColumns ==
    /\ DetectColumns
    /\ UNCHANGED results

NextDetect ==
    \/ CallDetectSlabs
    \/ CallDetectWalls
    \/ CallDetectColumns

SpecDetect == InitDetect /\ [][NextDetect]_vars

(***************************************************************************)
(* SpecOrder: a caller runs the three detectors on one sample, as          *)
(* segment_building_elements does, and keeps what each returned; the order *)
(* of the calls is left open, and a detector may be run again.             *)
(***************************************************************************)
OrderSamples ==
    {Levels(n1, n2, gap, axis, DefaultWallGrid) :
        n1 \in 0..MaxPts, n2 \in 0..MaxPts, gap \in {0, 36, MinColumnHeight}, axis \in {1, 2}}
    \cup {Lattice(nx, ny, MinColumnHeight, extra) :
            nx \in 3..4, ny \in 3..4, extra \in 0..MaxExtra}

InitOrder ==
    /\ cloud \in OrderSamples
    /\ wall_grid = DefaultWallGrid
    /\ ret = NoCall
    /\ results = NoResults
    /\ TaskInit

\* slabs = detect_slabs(cloud)
KeepSlabs ==
    /\ DetectSlabs
    /\ results' = [results EXCEPT !.slabs = <<ret'.out>>]

\* walls = detect_walls(cloud)
KeepWalls ==
    /\ DetectWalls
    /\ results' = [results EXCEPT !.walls = <<ret'.out>>]

\* columns = detect_columns(cloud)
KeepColumns ==
    /\ DetectColumns
    /\ results' = [results EXCEPT !.columns = <<ret'.out>>]

NextOrder ==
    \/ KeepSlabs
    \/ KeepWalls
    \/ KeepColumns

SpecOrder == InitOrder /\ [][NextOrder]_vars

(***************************************************************************)
(* SpecNonFinite: the detectors called directly on a sample one of whose   *)
(* coordinates is nan.                                                     *)
(***************************************************************************)
\* pts with the coordinate on axis a of its k-th point made nan
WithNaN(pts, k, a) == [pts EXCEPT ![k][a] = NaN]

NonFiniteSamples ==
    LET base == {Levels(n1, n2, gap, 1, DefaultWallGrid) :
                    n1 \in 1..MaxPts, n2 \in 1..MaxPts, gap \in {36, MinColumnHeight}}
                \cup {Lattice(3, 3, MinColumnHeight, extra) : extra \in 0..MaxExtra}
    IN  UNION {{WithNaN(c, k, a) : k \in {1, Len(c)}, a \in 1..3} : c \in base}

InitNonFinite ==
    /\ cloud \in NonFiniteSamples
    /\ wall_grid = DefaultWallGrid
    /\ ret = NoCall
    /\ results = NoResults
    /\ TaskInit

SpecNonFinite == InitNonFinite /\ [][NextDetect]_vars

(***************************************************************************)
(* Spec: process_point_cloud(task_id), step by step, on the sample the     *)
(* point-cloud library yields for the task's scan (`cloud` is what         *)
(* voxel_down_sample returns).  The function may be called again on the    *)
(* same task.                                                              *)
(***************************************************************************)
RunSamples ==
    {Levels(n1, n2, gap, axis, DefaultWallGrid) :
        n1 \in 0..MaxPts, n2 \in 0..MaxPts, gap \in Gaps, axis \in {1, 2}}
    \cup LatticeSamples

Init ==
    /\ cloud \in {c \in RunSamples : Len(c) <= MaxRunPts}
    /\ wall_grid = DefaultWallGrid
    /\ ret = NoCall
    /\ results = NoResults
    /\ TaskInit

\* Variant: the error is recorded but the function does not return.
ReturnError_NoReturn ==
    /\ stage' = stage
    /\ status' = "error"

\* return {"status": "error", ...}
ReturnError ==
    /\ stage' = "returned"
    /\ status' = "error"

\* 1. processor.load_e57(): False when reading the scan raised
LoadE57 ==
    /\ stage \in {"idle", "returned"}
    /\ runs < MaxRuns
    /\ runs' = runs + 1
    /\ elements' = NoElements
    /\ \/ /\ stage' = "loaded"
          /\ status' = "none"
       \/ ReturnError
    /\ UNCHANGED <<model_file, ifc, saved, edits>>
    /\ UNCHANGED detectVars

\* 2. processor.filter_noise(); an exception of the library call is caught
\* by process_point_cloud
FilterNoise ==
    /\ stage = "loaded"
    /\ \/ /\ stage' = "filtered"
          /\ UNCHANGED status
       \/ ReturnError
    /\ UNCHANGED <<elements, model_file, ifc, saved, runs, edits>>
    /\ UNCHANGED detectVars

\* 3. processor.downsample(voxel_size=0.05); an exception of the library call is caught
\* by process_point_cloud
Downsample ==
    /\ stage = "filtered"
    /\ \/ /\ stage' = "downsampled"
          /\ UNCHANGED status
       \/ ReturnError
    /\ UNCHANGED <<elements, model_file, ifc, saved, runs, edits>>
    /\ UNCHANGED detectVars

\* 4. processor.save_processed_cloud(); an exception of the library call is caught
\* by process_point_cloud
SaveProcessedCloud ==
    /\ stage = "downsampled"
    /\ \/ /\ stage' = "cloud_saved"
          /\ UNCHANGED status
       \/ ReturnError
    /\ UNCHANGED <<elements, model_file, ifc, saved, runs, edits>>
    /\ UNCHANGED detectVars

\* 5. processor.segment_building_elements(); an exception of a detector is
\* caught by process_point_cloud
SegmentBuildingElements ==
    /\ stage = "cloud_saved"
    /\ LET r == segment_building_elements(cloud)
       IN  \/ /\ r.exc = "none"
              /\ stage' = "segmented"
              /\ elements' = r.val
              /\ UNCHANGED status
           \/ /\ r.exc # "none"
              /\ ReturnError
              /\ UNCHANGED elements
    /\ UNCHANGED <<model_file, ifc, saved, runs, edits>>
    /\ UNCHANGED detectVars

\* 6. processor.save_model_data(elements); open() may raise
SaveModelData ==
    /\ stage = "segmented"
    /\ \/ /\ stage' = "model_saved"
          /\ model_file' = WriteJson(model_file, ModelData(cloud, elements))
          /\ saved' = Append(saved, model_file'.data)
          /\ UNCHANGED status
       \/ /\ ReturnError
          /\ UNCHANGED <<model_file, saved>>
    /\ UNCHANGED <<elements, ifc, runs, edits>>
    /\ UNCHANGED detectVars

\* 7. generate_ifc(task_id), then return {"status": "processed", ...}
GenerateIfc ==
    /\ stage = "model_saved"
    /\ \/ /\ ifc' = [exists |-> TRUE] @@ generate(model_file.data)
          /\ stage' = "returned"
          /\ status' = "processed"
       \/ /\ ReturnError
          /\ UNCHANGED ifc
    /\ UNCHANGED <<elements, model_file, saved, runs, edits>>
    /\ UNCHANGED detectVars

Next ==
    \/ LoadE57
    \/ FilterNoise
    \/ Downsample
    \/ SaveProcessedCloud
    \/ SegmentBuildingElements
    \/ SaveModelData
    \/ GenerateIfc

Spec == Init /\ [][Next]_vars

(***************************************************************************)
(* SpecExport: a task process_point_cloud has processed; clients edit the  *)
(* stored model with PUT /model/<task_id> and the IFC file is generated    *)
(* again from it with generate_ifc(task_id).                               *)
(***************************************************************************)
\* Elements a client stores: one slab, one wall from the origin to `wall_end`
\* and one column, each carrying 'storey': tag when tag >= 0 and no 'storey'
\* key when tag = -1.  Client numbers are plain: scale 1.
Tagged(data, tag) == IF tag >= 0 THEN data @@ [storey |-> tag] ELSE data

ClientElements(wall_end, tag) ==
    [slabs |-> <<Tagged([type |-> "IfcSlab", z |-> 0, scale |-> 1,
                         thickness |-> SlabThickness], tag)>>,
     walls |-> <<Tagged([type |-> "IfcWall", start |-> <<0, 0, 0>>, end |-> wall_end,
                         scale |-> 1, height |-> 250,
                         thickness |-> WallThickness], tag)>>,
     columns |-> <<Tagged([type |-> "IfcColumn", position |-> <<100, 100, 0>>,
                           scale |-> 1, height |-> 250,
                           width |-> ColumnSize, depth |-> ColumnSize], tag)>>]

\* wall ends at 0.05, at exactly 0.1 (0.06, 0.08), just below it, and at 3.0
ClientWallEnds == {<<5, 0, 0>>, <<6, 8, 0>>, <<6, 7, 0>>, <<300, 0, 0>>}

Updates ==
    {[elements |-> ClientElements(e, tag)] : e \in ClientWallEnds, tag \in -1..MaxStoreyTag}
    \cup {[storeys |-> [k \in 1..n |-> k - 1]] : n \in 1..MaxStoreys}

ProcessedTask(points) ==
    LET r == segment_building_elements(points)
        data == ModelData(points, r.val)
    IN  /\ r.exc = "none"
        /\ elements = r.val
        /\ model_file = WriteJson(NoFile, data)
        /\ ifc = [exists |-> TRUE] @@ generate(data)
        /\ saved = <<data>>

InitExport ==
    /\ cloud \in {c \in RunSamples : Len(c) = MaxPts}
    /\ wall_grid = DefaultWallGrid
    /\ ret = NoCall
    /\ results = NoResults
    /\ stage = "returned"
    /\ status = "processed"
    /\ runs = 1
    /\ edits = 0
    /\ ProcessedTask(cloud)

\* PUT /model/<task_id>
UpdateModel ==
    /\ model_file.exists
    /\ edits < MaxEdits
    /\ edits' = edits + 1
    /\ \E updates \in Updates :
        model_file' = WriteJson(model_file, DictUpdate(model_file.data, updates))
    /\ UNCHANGED <<stage, status, elements, ifc, saved, runs>>
    /\ UNCHANGED detectVars

\* generate_ifc(task_id)
ExportIfc ==
    /\ model_file.exists
    /\ ifc' = [exists |-> TRUE] @@ generate(model_file.data)
    /\ UNCHANGED <<stage, status, elements, model_file, saved, runs, edits>>
    /\ UNCHANGED detectVars

NextExport ==
    \/ UpdateModel
    \/ ExportIfc

SpecExport == InitExport /\ [][NextExport]_vars

(***************************************************************************)
(* What the properties below say about a sample.                           *)
(***************************************************************************)
ZSet(pts) == {pts[k][3] : k \in DOMAIN pts}

ZRange(pts) == MaxOf(ZSet(pts)) - MinOf(ZSet(pts))

CountAt(pts, z) == Cardinality({k \in DOMAIN pts : pts[k][3] = z})

TwoElevations(pts) == Cardinality(ZSet(pts)) = 2

CalledSlabs == ret.fn = "detect_slabs"

CalledWalls == ret.fn = "detect_walls"

CalledColumns == ret.fn = "detect_columns"

(***************************************************************************)
(* C1  detect_slabs on a sample with exactly two elevations z1 < z2,       *)
(* z2 - z1 > 0.3.                                                          *)
(***************************************************************************)
\* C1 as stated: such a sample always gives exactly 2 slabs, at z1 and at z2.
C1_AsStated ==
    (CalledSlabs /\ TwoElevations(cloud) /\ ZRange(cloud) > SlabMergeGap)
    => /\ ret.out.exc = "none"
       /\ Len(ret.out.val) = 2
       /\ ret.out.val[1].z = MinOf(ZSet(cloud)) * ret.out.val[1].scale
       /\ ret.out.val[2].z = MaxOf(ZSet(cloud)) * ret.out.val[2].scale

\* Each of the two elevations holds more than 0.3 of the larger count, and the
\* midpoints of the first and the last histogram bin are at least 0.3 apart.
C1_Separated(pts) ==
    LET z1 == MinOf(ZSet(pts))
        z2 == MaxOf(ZSet(pts))
        n1 == CountAt(pts, z1)
        n2 == CountAt(pts, z2)
        nbins == (z2 - z1) \div DefaultZStep
    IN  /\ 10 * n1 > 3 * n2
        /\ 10 * n2 > 3 * n1
        /\ (nbins - 1) * (z2 - z1) >= SlabMergeGap * nbins

\* C1 amended: for a sample with exactly two elevations z1 < z2, z2 - z1 > 0.3,
\* each holding more than 0.3 of the other's count, and with the midpoints of
\* the first and last bins at least 0.3 apart, detect_slabs returns exactly 2
\* slabs, at those two midpoints z1 + w/2 and z2 - w/2, w = (z2 - z1) / bins.
C1_TwoSlabsAtBinMidpoints ==
    (CalledSlabs /\ TwoElevations(cloud) /\ ZRange(cloud) > SlabMergeGap
        /\ C1_Separated(cloud))
    => LET z1 == MinOf(ZSet(cloud))
           z2 == MaxOf(ZSet(cloud))
           nbins == (z2 - z1) \div DefaultZStep
           out == ret.out.val
       IN  /\ ret.out.exc = "none"
           /\ Len(out) = 2
           /\ out[1].z * 2 * nbins = (2 * nbins * z1 + (z2 - z1)) * out[1].scale
           /\ out[2].z * 2 * nbins = (2 * nbins * z2 - (z2 - z1)) * out[2].scale
           /\ out[1].thickness = SlabThickness
           /\ out[2].thickness = SlabThickness

C1_Witness ==
    /\ CalledSlabs
    /\ TwoElevations(cloud)
    /\ ZRange(cloud) = 35
    /\ C1_Separated(cloud)
    /\ CountAt(cloud, MinOf(ZSet(cloud))) # CountAt(cloud, MaxOf(ZSet(cloud)))
    /\ Len(ret.out.val) = 2

(***************************************************************************)
(* C2  detect_slabs on a non-empty sample with one elevation.              *)
(***************************************************************************)
\* C2 as stated: a non-empty sample whose points share one Z elevation gives
\* exactly 1 slab and no exception.
C2_AsStated ==
    (CalledSlabs /\ Len(cloud) > 0 /\ Cardinality(ZSet(cloud)) = 1)
    => /\ ret.out.exc = "none"
       /\ Len(ret.out.val) = 1

(***************************************************************************)
(* C3  the three detectors on an empty or zero-height sample.              *)
(***************************************************************************)
Degenerate(pts) == Len(pts) = 0 \/ Cardinality(ZSet(pts)) = 1

\* C3 as stated: on an empty or zero-height sample each detector returns an
\* empty list and raises nothing.
C3_AsStated ==
    ((CalledSlabs \/ CalledWalls \/ CalledColumns) /\ Degenerate(cloud))
    => ret.out = Returned(<<>>)

RowOccupied(g, j) == Cardinality({i \in 0..(g.x_bins - 1) : WallMask(g, i, j)})

ColOccupied(g, i) == Cardinality({j \in 0..(g.y_bins - 1) : WallMask(g, i, j)})

\* The walls of the list that run along row j / along column i of the grid.
WallsOnRow(walls, g, j) ==
    {k \in DOMAIN walls :
        /\ walls[k].start[2] = YCenter(g, j)
        /\ walls[k].end[2] = YCenter(g, j)
        /\ walls[k].start[1] # walls[k].end[1]}

WallsOnCol(walls, g, i) ==
    {k \in DOMAIN walls :
        /\ walls[k].start[1] = XCenter(g, i)
        /\ walls[k].end[1] = XCenter(g, i)
        /\ walls[k].start[2] # walls[k].end[2]}

CalledWallsOnGrid == CalledWalls /\ ret.out.exc = "none" /\ Len(WallPoints(cloud)) > 0

C6_LowSampleNoColumns ==
    (CalledColumns /\ Len(cloud) > 0)
    => /\ ZRange(cloud) < MinColumnHeight => ret.out = Returned(<<>>)
       /\ ZRange(cloud) = MinColumnHeight
            => /\ ret.out.exc = "none"
               /\ Len(ret.out.val) > 0 <=> Len(ColumnCandidates(cloud, ret.arg)) > 0

C6_Witness ==
    /\ CalledColumns
    /\ Len(cloud) > 0
    /\ ZRange(cloud) = MinColumnHeight - 1
    /\ Len(ColumnCandidates(cloud, ret.arg)) > 0
    /\ ret.out = Returned(<<>>)

(***************************************************************************)
(* C7  the cap on the number of columns.                                   *)
(***************************************************************************)
\* The column list is made of the first n candidates, in scan order.
FirstCandidates(columns, g, cands, n) ==
    /\ Len(columns) = n
    /\ \A k \in 1..n :
        /\ columns[k].position[1] = XCenter(g, cands[k][1])
        /\ columns[k].position[2] = YCenter(g, cands[k][2])

\* C7: with more than 50 candidates detect_columns returns exactly the first 20
\* in scan order; with 50 or fewer it returns all of them.
C7_CapTwentyAboveFifty ==
    (CalledColumns /\ Len(cloud) > 0 /\ ZRange(cloud) >= MinColumnHeight)
    => LET g == ColumnGrid(cloud, ret.arg)
           cands == ColumnCandidates(cloud, ret.arg)
           n == Len(cands)
       IN  /\ ret.out.exc = "none"
           /\ n > 50 => FirstCandidates(ret.out.val, g, cands, 20)
           /\ n <= 50 => FirstCandidates(ret.out.val, g, cands, n)

C7_Witness ==
    /\ CalledColumns
    /\ Len(cloud) > 0
    /\ Len(ColumnCandidates(cloud, ret.arg)) > 50
    /\ Len(ret.out.val) = 20

EntitiesOf(class) == {k \in DOMAIN ifc.entities : ifc.entities[k].class = class}

\* C9 as stated: a wall shorter than 0.1 leaves nothing in the export model:
\* the file holds a wall entity only for the walls that are not too short.
C9_AsStated ==
    ifc.exists
    => LET walls == ifc.source.elements.walls
       IN  Cardinality(EntitiesOf("IfcWall"))
            = Cardinality({k \in DOMAIN walls : ~TooShort(walls[k])})

(***************************************************************************)
(* C10  the storey every synthesized element is assigned to.               *)
(***************************************************************************)
\* The elements of a model in the order generate() creates their entities.
ElementsInOrder(model_data) ==
    model_data.elements.slabs \o model_data.elements.walls \o model_data.elements.columns

\* C10 as stated, for the storeys the file has: every entity placed in a storey
\* is in the storey its element's 'storey' index names, and in storey 0 when
\* the element has no such key.
C10_AsStated ==
    ifc.exists
    => LET elems == ElementsInOrder(ifc.source)
       IN  \A k \in DOMAIN elems :
            (ifc.entities[k].container # <<>> /\ Get(elems[k], "storey", 0) \in ifc.storeys)
            => ifc.entities[k].container = <<Get(elems[k], "storey", 0)>>

(***************************************************************************)
(* C11.  A sample with a non-finite coordinate makes the detector signal a *)
(* ValidationError instead of returning elements computed from it.         *)
(***************************************************************************)
NonFinite(pts) == HasNaN(pts, 1) \/ HasNaN(pts, 2) \/ HasNaN(pts, 3)

\* C11 as stated: every detector call on a sample holding a non-finite
\* coordinate ends with a ValidationError and returns no element.
C11_AsStated ==
    (ret.fn # "none" /\ NonFinite(cloud))
    => (ret.out.exc = "ValidationError" /\ ret.out.val = <<>>)

(***************************************************************************)
(* C12.  The detectors never modify the sample, and whatever the order in  *)
(* which a caller runs them on it, each returns what it returns in the     *)
(* order slabs, walls, columns.                                            *)
(***************************************************************************)
\* The three detectors run in the fixed order on the sample `points`.
FixedOrderSlabs(points) == detect_slabs(points, DefaultZStep)

FixedOrderWalls(points, grid_size) ==
    detect_walls(PointsAfter("detect_slabs", points), grid_size)

FixedOrderColumns(points) ==
    detect_columns(PointsAfter("detect_walls", PointsAfter("detect_slabs", points)),
                   DefaultColumnGrid)

RestrictedZRange(pts) == ZRange(WallPoints(pts))

\* C13 as stated: every wall detect_walls returns has the Z range of the
\* restricted point set (Z above the middle of the sample) as its height,
\* and thickness 0.2.
C13_AsStated ==
    (CalledWalls /\ ret.out.exc = "none")
    => \A k \in DOMAIN ret.out.val :
        /\ ret.out.val[k].height = RestrictedZRange(cloud)
        /\ ret.out.val[k].thickness = WallThickness

\* C13 amended: every wall detect_walls returns has the Z range of the whole
\* sample (z_max - z_min over all its points) as its height, and thickness 0.2.
C13_WallHeightIsWholeRange ==
    (CalledWalls /\ ret.out.exc = "none")
    => \A k \in DOMAIN ret.out.val :
        /\ ret.out.val[k].height = ZRange(cloud)
        /\ ret.out.val[k].thickness = WallThickness

\* Walls were returned for a sample whose restricted set spans less than the
\* sample does.
C13_Witness ==
    /\ CalledWalls
    /\ ret.out.exc = "none"
    /\ Len(ret.out.val) > 0
    /\ RestrictedZRange(cloud) < ZRange(cloud)

(***************************************************************************)
(* C14.  The rectangle profiles of the generated file.                     *)
(***************************************************************************)
\* Both dimensions of the IfcRectangleProfileDef of an entity are positive;
\* XDim of a wall is the length of (dx, dy).
ProfilePositive(entity) ==
    LET shape == entity.shape[1]
    IN  IF entity.class = "IfcWall"
        THEN (shape.dx # 0 \/ shape.dy # 0) /\ shape.YDim > 0
        ELSE shape.XDim > 0 /\ shape.YDim > 0

\* C14 as stated: every rectangle profile in the file generated for a model
\* the detectors produced has both dimensions greater than 0, also when the
\* bounds of the sample have no extent along X or Y.
C14_AsStated ==
    ifc.exists
    => \A k \in DOMAIN ifc.entities :
        ifc.entities[k].shape # <<>> => ProfilePositive(ifc.entities[k])

(***************************************************************************)
(* C15.  detect_slabs: one slab per run of above-threshold bins.           *)
(***************************************************************************)
SlabBins(pts) == ZRange(pts) \div DefaultZStep

\* The bins of the height histogram whose count is above 0.3 of the largest.
PeakBins(pts) ==
    LET n == SlabBins(pts)
        lo == MinOf(ZSet(pts))
        hi == MaxOf(ZSet(pts))
        count == [i \in 0..(n - 1) |->
                    Cardinality({k \in DOMAIN pts : BinIndex(pts[k][3], lo, hi, n) = i})]
        top == MaxOf({count[i] : i \in 0..(n - 1)})
    IN  {i \in 0..(n - 1) : 10 * count[i] > 3 * top}

\* The midpoint of bin j is less than 0.3 above the midpoint of bin i.
MidpointsNear(pts, i, j) == (j - i) * ZRange(pts) < SlabMergeGap * SlabBins(pts)

\* The peak bins that open a run: the lowest, and each one not near the peak
\* bin just below it.
RunStarts(pts, P) ==
    {i \in P : \/ \A j \in P : j >= i
               \/ ~MidpointsNear(pts, MaxOf({j \in P : j < i}), i)}

\* The run opened at s: the peak bins from s up to the next opening.
RunOf(P, starts, s) ==
    {i \in P : i >= s /\ \A t \in starts : ~(s < t /\ t <= i)}

\* The k-th run opening, in ascending elevation.
KthStart(starts, k) ==
    CHOOSE s \in starts : Cardinality({t \in starts : t < s}) = k - 1

RECURSIVE SetSum(_)
SetSum(S) == IF S = {} THEN 0 ELSE LET x == CHOOSE y \in S : TRUE IN x + SetSum(S \ {x})

\* The slab has thickness 0.3 and the mean of the midpoints of the bins R as
\* its elevation.
SlabOfRun(slab, pts, R) ==
    LET n == SlabBins(pts)
        c == Cardinality(R)
    IN  /\ slab.thickness = SlabThickness
        /\ slab.z * (2 * n * c)
             = (MinOf(ZSet(pts)) * 2 * n * c + (2 * SetSum(R) + c) * ZRange(pts)) * slab.scale

\* C15: detect_slabs returns one slab per maximal run of above-threshold bins
\* in which each midpoint is less than 0.3 above the previous one, in
\* ascending order, each with the mean of its run's midpoints as elevation
\* and thickness 0.3, so successive slabs are at least 0.3 apart; it raises
\* only where there is no histogram (no point, or fewer than one bin).
C15_OneSlabPerRun ==
    CalledSlabs
    => IF ret.out.exc = "none"
       THEN LET out == ret.out.val
                P == PeakBins(cloud)
                starts == RunStarts(cloud, P)
            IN  /\ Len(out) = Cardinality(starts)
                /\ \A k \in DOMAIN out :
                        SlabOfRun(out[k], cloud, RunOf(P, starts, KthStart(starts, k)))
                /\ \A k \in 1..(Len(out) - 1) :
                        out[k + 1].z * out[k].scale - out[k].z * out[k + 1].scale
                            >= SlabMergeGap * out[k].scale * out[k + 1].scale
       ELSE Len(cloud) = 0 \/ SlabBins(cloud) < 1

\* Three slabs or more were returned, one of them for a run of three bins or more.
C15_Witness ==
    /\ CalledSlabs
    /\ ret.out.exc = "none"
    /\ Len(ret.out.val) >= 3
    /\ LET P == PeakBins(cloud)
           starts == RunStarts(cloud, P)
       IN  \E s \in starts : Cardinality(RunOf(P, starts, s)) >= 3

(***************************************************************************)
(* C16.  The cells detect_columns returns columns for.                     *)
(***************************************************************************)
\* No other cell of the 3x3 neighbourhood holds as many points.
StrictLocalMax(g, i, j) ==
    \A di \in {-1, 0, 1}, dj \in {-1, 0, 1} :
        (di # 0 \/ dj # 0) => CellCount(g, i + di, j + dj) < CellCount(g, i, j)

Interior(g, i, j) == 0 < i /\ i < g.x_bins - 1 /\ 0 < j /\ j < g.y_bins - 1

\* The column is centred on the cell <<i, j>> of the grid.
ColumnAt(column, g, i, j) ==
    /\ column.position[1] * GridScale(g) = XCenter(g, i) * column.scale
    /\ column.position[2] * GridScale(g) = YCenter(g, j) * column.scale

\* The cells the returned columns are centred on.
ColumnCells(columns, g) ==
    {c \in (0..(g.x_bins - 1)) \X (0..(g.y_bins - 1)) :
        \E k \in DOMAIN columns : ColumnAt(columns[k], g, c[1], c[2])}

Adjacent(c, d) == c # d /\ Abs(c[1] - d[1]) <= 1 /\ Abs(c[2] - d[2]) <= 1

\* C16 as stated: every column returned comes from an interior cell whose
\* count is above 0.6 of the largest and is a strict maximum of its 3x3
\* neighbourhood, and no two columns come from adjacent cells.
C16_AsStated ==
    (CalledColumns /\ ret.out.exc = "none" /\ Len(ret.out.val) > 0)
    => LET g == ColumnGrid(cloud, DefaultColumnGrid)
           cells == ColumnCells(ret.out.val, g)
       IN  /\ Cardinality(cells) = Len(ret.out.val)
           /\ \A c \in cells :
                /\ Interior(g, c[1], c[2])
                /\ ColumnPeak(g, c[1], c[2])
                /\ StrictLocalMax(g, c[1], c[2])
           /\ \A c \in cells, d \in cells : ~Adjacent(c, d)

(***************************************************************************)
(* C17.  The order of the stages of process_point_cloud.  A failure is     *)
(* load_e57 returning False or a stage raising.                            *)
(***************************************************************************)
StageOrder ==
    <<"loaded", "filtered", "downsampled", "cloud_saved", "segmented", "model_saved">>

\* One step of a call: it begins by loading, a stage follows the completed
\* stage just before it, the call returns "processed" from IFC generation
\* only, or it returns "error" leaving the files as they are.
StageStep ==
    \/ stage \in {"idle", "returned"} /\ stage' = "loaded" /\ status' = "none"
    \/ \E k \in 1..(Len(StageOrder) - 1) :
          stage = StageOrder[k] /\ stage' = StageOrder[k + 1] /\ status' = "none"
    \/ /\ stage = "model_saved" /\ stage' = "returned" /\ status' = "processed"
       /\ ifc'.exists /\ ifc'.source = model_file.data
    \/ /\ stage' = "returned" /\ status' = "error"
       /\ model_file' = model_file /\ ifc' = ifc /\ saved' = saved

\* What a stage produces appears in that stage only.
StageEffects ==
    /\ elements' # elements => stage \in {"idle", "returned", "cloud_saved"}
    /\ model_file' # model_file => stage = "segmented" /\ stage' = "model_saved"
    /\ saved' # saved => stage = "segmented" /\ stage' = "model_saved"
    /\ ifc' # ifc => stage = "model_saved" /\ status' = "processed"

\* C17: the stages run in the order load, filter noise, downsample, save
\* cloud, segment, save model data, generate IFC, each after the one before
\* it completed; a failed load or a raising stage ends the call with status
\* "error" and nothing later runs; "processed" is returned only once the IFC
\* file has been generated.
C17_StagesInOrder ==
    /\ [][StageStep /\ StageEffects]_vars
    /\ [](status = "error" => stage = "returned")
    /\ [](status = "processed" => stage = "returned" /\ ifc.exists)
    /\ [](stage \in {"idle", "returned"} <=> status # "none" \/ runs = 0)

\* A second call failed after its model data was saved, the first having been
\* processed: the IFC file is still the one of the first call.
C17_Witness ==
    /\ runs = 2
    /\ stage = "returned"
    /\ status = "error"
    /\ Len(saved) = 2
    /\ ifc.exists

====
